---- MODULE Spec2Model ----
(***************************************************************************)
(* The iframe bridge of src/web/graviton-bridge.js (the current revision,  *)
(* lines 86-339): the readiness routine started by setup(), the command    *)
(* queue, the message listener, importWorkflow with its retry loop and the *)
(* export snapshot.                                                        *)
(*                                                                         *)
(* JavaScript runs one task at a time.  A step of this model is one run of *)
(* the event loop: a message event, a timer or the completion of a call    *)
(* into the embedded application, followed by every continuation that      *)
(* needs no further timer or external completion (an await of a value that *)
(* is already settled resumes in a microtask, before any other task).      *)
(* The embedded application is the environment: its readiness flags are    *)
(* state that changes between tasks, and each call into it has an outcome  *)
(* chosen when the call returns.                                           *)
(***************************************************************************)
EXTENDS Integers, Sequences, FiniteSets, TLC

\* ---------------------------------------------------------------- bounds

\* Messages the host posts in one session.
MaxMsgs == 2

\* waitFor*Ready: timeoutMs / poll interval (10000 / 50 in the source), scaled.
TimeoutTicks == 2

\* Calls into the embedded application that go wrong in one session: a call
\* that throws, a call that yields nothing.
MaxFaults == 1

\* ------------------------------------------------------ program constants

BRIDGE_NS == "graviton-bridge"

HOST_NS == "graviton-host"

maxAttempts == 30

\* The needle of message.includes(...), as a sequence of words.
RaceSignature == <<"getCanvas:", "canvas", "is", "null">>

\* ------------------------------------------------------------ JS values

\* undefined / null: the two are not told apart by any test of the source
\* (!x, x?.y, x ?? y, x || y).
Null == "null"

Min(a, b) == IF a < b THEN a ELSE b

\* String.prototype.includes on word sequences: needle is a contiguous part.
Includes(hay, needle) ==
  \E i \in 0..(Len(hay) - Len(needle)) :
     \A j \in 1..Len(needle) : hay[i + j] = needle[j]

\* Values the embedded application throws: an Error with a message, an Error
\* with an empty message (String(error) is then its name), or a bare string.
Thrown ==
  { [message |-> RaceSignature, str |-> <<"Error:">> \o RaceSignature],
    [message |-> <<"store">> \o RaceSignature \o <<"(pinia)">>,
     str |-> <<"Error:", "store">> \o RaceSignature \o <<"(pinia)">>],
    [message |-> <<"invalid", "workflow", "json">>,
     str |-> <<"Error:", "invalid", "workflow", "json">>],
    [message |-> <<>>, str |-> <<"Error">>] }

\* new Error(text) thrown by the bridge itself.
NewError(text) == [message |-> <<text>>, str |-> <<"Error:", text>>]

\* String(error?.message || error)
ErrorMessage(error) ==
  IF error.message # <<>> THEN error.message ELSE error.str

isCanvasStoreRace(error) == Includes(ErrorMessage(error), RaceSignature)

RaceThrown == {e \in Thrown : isCanvasStoreRace(e)}

FatalThrown == Thrown \ RaceThrown


\* ------------------------------------------------------------------ state

VARIABLES
  env,              \* the embedded application's readiness flags
  bridgeReady,      \* let bridgeReady (ReadinessState)
  queuedMessages,   \* const queuedMessages (the command queue)
  debugLoggedOnce,  \* let debugLoggedOnce (the diagnostic flag)
  outbox,           \* every postToParent so far, in order
  setupPc,          \* where the readiness routine of setup() stands
  setupElapsed,     \* Date.now() - start of the wait setup() sleeps in
  drainCur,         \* the queued command whose import the drain awaits, or 0
  tasks,            \* one entry per message event: the message and its handler
  dispatchOrder,    \* ids of the queued commands the drain handed to importWorkflow
  polled,           \* what the polls of the readiness routine have seen so far
  msgsLeft,         \* messages the host may still post
  faultsLeft,       \* faults the embedded application may still produce
  probe             \* inputs and result of the function under test (function specs)

vars == <<env, bridgeReady, queuedMessages, debugLoggedOnce, outbox, setupPc,
          setupElapsed, drainCur, tasks, dispatchOrder, polled, msgsLeft,
          faultsLeft, probe>>

\* graph: app.graph; canvas: app.canvas || app.graph?.canvas;
\* uiRuntime: window.app && window.graph (only ever read together);
\* vueAppReady: window.app.vueAppReady;
\* handleFile: typeof app.handleFile === 'function'.
EnvStates == [graph : BOOLEAN, canvas : BOOLEAN, uiRuntime : BOOLEAN,
              vueAppReady : BOOLEAN, handleFile : BOOLEAN]

EnvFlags == {"graph", "canvas", "uiRuntime", "vueAppReady", "handleFile"}

AllSet == [graph |-> TRUE, canvas |-> TRUE, uiRuntime |-> TRUE,
           vueAppReady |-> TRUE, handleFile |-> TRUE]

NoError == [message |-> <<>>, str |-> <<>>]

NoProbe == [kind |-> "none"]

\* ------------------------------------------------------- outbound events

\* What postToParent sends: {source: BRIDGE_NS, type, payload}.  id is not on
\* the wire: it names the message event whose handling posted the event.
Event(type, id, stage, message, workflow, hasGraph) ==
  [source |-> BRIDGE_NS, type |-> type, id |-> id, stage |-> stage,
   message |-> message, workflow |-> workflow, hasGraph |-> hasGraph]

ReadyEvent(e) == Event("ready", 0, "", <<>>, Null, e.graph)

PongEvent(id) == Event("pong", id, "", <<>>, Null, FALSE)

ExportedEvent(id, workflow) ==
  Event("workflow-exported", id, "", <<>>, workflow, FALSE)

ImportedEvent(id, workflow) ==
  Event("workflow-imported", id, "", <<>>, workflow, FALSE)

ErrorEvent(id, stage, error) ==
  Event("error", id, stage, ErrorMessage(error), Null, FALSE)

postToParent(out, event) == Append(out, event)

\* -------------------------------------------------------- readiness waits

hasCanvasReady(e) == e.graph /\ e.canvas

hasUiRuntimeReady(e) == e.uiRuntime

hasHostReady(e) == e.uiRuntime /\ e.vueAppReady

\* One turn of a wait loop, from the loop head to its next suspension: the
\* time test, the poll, and on a failed poll a sleep of at least one interval
\* (d intervals; any overshoot past the timeout behaves alike).
WaitTurn(ok, elapsed, d) ==
  IF elapsed >= TimeoutTicks THEN [out |-> "timeout", elapsed |-> elapsed]
  ELSE IF ok THEN [out |-> "return", elapsed |-> 0]
  ELSE [out |-> "sleep", elapsed |-> Min(elapsed + d, TimeoutTicks)]

waitForCanvasReady(e, elapsed, d) == WaitTurn(hasCanvasReady(e), elapsed, d)

waitForUiRuntimeReady(e, elapsed, d) == WaitTurn(hasUiRuntimeReady(e), elapsed, d)

\* Mutant: the last wait does not look at vueAppReady.
waitForHostReadyNoVue(e, elapsed, d) == WaitTurn(hasUiRuntimeReady(e), elapsed, d)

waitForHostReady(e, elapsed, d) == WaitTurn(hasHostReady(e), elapsed, d)

TimeoutError(stage) ==
  CASE stage = "canvas" -> NewError("Timed out waiting for Comfy canvas initialization")
    [] stage = "ui" -> NewError("Timed out waiting for Comfy UI runtime initialization")
    [] stage = "host" -> NewError("Timed out waiting for host-ready state")

\* await waitForCanvasReady(); await waitForUiRuntimeReady(); await
\* waitForHostReady(), resumed in the wait `stage` with `elapsed` on its clock:
\* a wait that returns hands over to the next one in the same task.
ReadinessWaits(stage, elapsed, e, d) ==
  LET c == IF stage = "canvas" THEN waitForCanvasReady(e, elapsed, d)
           ELSE [out |-> "return", elapsed |-> 0]
      u == IF stage = "host" THEN [out |-> "return", elapsed |-> 0]
           ELSE waitForUiRuntimeReady(e, IF stage = "ui" THEN elapsed ELSE 0, d)
      h == waitForHostReady(e, IF stage = "host" THEN elapsed ELSE 0, d)
  IN  IF c.out # "return" THEN [out |-> c.out, stage |-> "canvas", elapsed |-> c.elapsed]
      ELSE IF u.out # "return" THEN [out |-> u.out, stage |-> "ui", elapsed |-> u.elapsed]
      ELSE [out |-> h.out, stage |-> "host", elapsed |-> h.elapsed]

SleepPc(stage) ==
  CASE stage = "canvas" -> "sleepCanvas"
    [] stage = "ui" -> "sleepUi"
    [] stage = "host" -> "sleepHost"

StageOf(pc) ==
  CASE pc = "sleepCanvas" -> "canvas"
    [] pc = "sleepUi" -> "ui"
    [] pc = "sleepHost" -> "host"

SleepPcs == {"sleepCanvas", "sleepUi", "sleepHost"}

\* -------------------------------------------------------- export snapshot

PromptDocs == {"promptDoc"}

GraphDocs == {"graphDoc"}

\* What app.graphToPrompt does when called: it rejects, resolves to null,
\* resolves to a result without an output field, or to a result with one;
\* "absent" when typeof app.graphToPrompt is not 'function'.
G2PReturns == {"throws", "noResult", "noOutput"} \cup PromptDocs

G2POutcomes == {"absent"} \cup G2PReturns

\* What app.graph.serialize does: missing, throws, returns undefined or a document.
SerOutcomes == {"absent", "throws", "undefined"} \cup GraphDocs

\* promptResult?.output ?? null inside try/catch, null without the capability.
exportPromptSnapshot(g2p) == IF g2p \in PromptDocs THEN g2p ELSE Null

\* app.graph?.serialize?.() ?? null inside try/catch.
safeGraphSnapshot(hasGraph, ser) ==
  IF hasGraph /\ ser \in GraphDocs THEN ser ELSE Null

\* Mutant: no fallback whenever graphToPrompt is there and does not throw.
SnapshotNoFallback(g2p, hasGraph, ser) ==
  IF g2p \in {"absent", "throws"} THEN safeGraphSnapshot(hasGraph, ser)
  ELSE exportPromptSnapshot(g2p)

\* (await exportPromptSnapshot()) ?? safeGraphSnapshot()
Snapshot(g2p, hasGraph, ser) ==
  IF exportPromptSnapshot(g2p) # Null THEN exportPromptSnapshot(g2p)
  ELSE safeGraphSnapshot(hasGraph, ser)

\* ------------------------------------------------------ workflow documents

\* A JavaScript value as the normalizer sees it: its kind and, for an
\* object, its own enumerable properties in Object.entries order.  "string"
\* is a non-empty string, "emptyString" the empty one (falsy, typeof string).
JsValue(kind, fields) == [kind |-> kind, fields |-> fields]

Undefined == JsValue("undefined", <<>>)

JsNull == JsValue("null", <<>>)

JsString == JsValue("string", <<>>)

JsEmptyString == JsValue("emptyString", <<>>)

JsArray == JsValue("array", <<>>)

Obj(fields) == JsValue("object", fields)

Field(key, value) == [key |-> key, value |-> value]

\* !v is false
Truthy(v) == v.kind \notin {"undefined", "null", "emptyString"}

\* typeof v === 'object'
TypeofObject(v) == v.kind \in {"null", "array", "object"}

\* typeof v === 'string'
TypeofString(v) == v.kind \in {"string", "emptyString"}

\* Array.isArray(v)
IsArray(v) == v.kind = "array"

\* v[key] or v.key; a property a value does not have is undefined
Get(v, key) ==
  IF \E i \in 1..Len(v.fields) : v.fields[i].key = key
  THEN v.fields[CHOOSE i \in 1..Len(v.fields) : v.fields[i].key = key].value
  ELSE Undefined

\* Object.values(v)
ObjectValues(v) == [i \in 1..Len(v.fields) |-> v.fields[i].value]

\* !workflow || typeof workflow !== 'object' || Array.isArray(workflow)
NotPlainObject(v) == ~Truthy(v) \/ ~TypeofObject(v) \/ IsArray(v)

\* The callback of values.every(...) in isApiPromptFormat.
NodeConforms(node) ==
  IF NotPlainObject(node) THEN FALSE
  ELSE /\ TypeofString(Get(node, "class_type"))
       /\ Truthy(Get(node, "inputs"))
       /\ TypeofObject(Get(node, "inputs"))
       /\ ~IsArray(Get(node, "inputs"))

\* Mutant: some value, instead of every value, is an operation record.
isApiPromptFormatSome(workflow) ==
  IF NotPlainObject(workflow) THEN FALSE
  ELSE \E i \in 1..Len(workflow.fields) : NodeConforms(ObjectValues(workflow)[i])

isApiPromptFormat(workflow) ==
  IF NotPlainObject(workflow) THEN FALSE
  ELSE LET values == ObjectValues(workflow) IN
       IF Len(values) = 0 THEN FALSE
       ELSE \A i \in 1..Len(values) : NodeConforms(values[i])

\* The test of the loop body of normalizeApiPrompt, on one [key, value] entry.
EntryConforms(entry) ==
  /\ Truthy(entry.value)
  /\ TypeofObject(entry.value)
  /\ ~IsArray(entry.value)
  /\ TypeofString(Get(entry.value, "class_type"))
  /\ Truthy(Get(entry.value, "inputs"))
  /\ TypeofObject(Get(entry.value, "inputs"))
  /\ ~IsArray(Get(entry.value, "inputs"))

normalizeApiPrompt(workflow) ==
  IF NotPlainObject(workflow) THEN workflow
  ELSE Obj(SelectSeq(workflow.fields, EntryConforms))

\* Mutant: envelopes are removed as long as there is one (two levels here).
extractWorkflowPayloadDeep(input) ==
  LET once == IF NotPlainObject(input) THEN input
              ELSE IF Truthy(Get(input, "workflow")) /\ TypeofObject(Get(input, "workflow"))
              THEN Get(input, "workflow") ELSE input
  IN  IF NotPlainObject(once) THEN once
      ELSE IF Truthy(Get(once, "workflow")) /\ TypeofObject(Get(once, "workflow"))
      THEN Get(once, "workflow") ELSE once

extractWorkflowPayload(input) ==
  IF NotPlainObject(input) THEN input
  ELSE IF Truthy(Get(input, "workflow")) /\ TypeofObject(Get(input, "workflow"))
  THEN Get(input, "workflow")
  ELSE input

\* importWorkflow, lines 216-219: the document handed to JSON.stringify.
normalizedWorkflow(workflow) ==
  LET extractedWorkflow == extractWorkflowPayload(workflow) IN
  IF isApiPromptFormat(extractedWorkflow) THEN normalizeApiPrompt(extractedWorkflow)
  ELSE extractedWorkflow

\* { workflow: document }
Envelope(document) == Obj(<<Field("workflow", document)>>)

\* The objects whose keys are some of `keys`, in that order, the value of
\* keys[i] being one of valueSets[i].
RECURSIVE ObjectsOver(_, _)
ObjectsOver(keys, valueSets) ==
  IF keys = <<>> THEN {<<>>}
  ELSE LET rest == ObjectsOver(Tail(keys), Tail(valueSets)) IN
       rest \cup {<<Field(Head(keys), v)>> \o r : v \in Head(valueSets), r \in rest}

Leaves == {JsNull, JsString, JsEmptyString, JsArray}

\* What a node's inputs may be.
InputsValues ==
  {JsNull, JsString, JsArray, Obj(<<>>), Obj(<<Field("seed", JsString)>>)}

\* Operation records and their malformed kin: class_type and inputs each
\* missing, of the right type or of a wrong one.
Nodes ==
  {Obj(f) : f \in ObjectsOver(<<"class_type", "inputs">>,
                              <<{JsString, JsEmptyString, JsArray}, InputsValues>>)}

OneNode == Obj(<<Field("class_type", JsString), Field("inputs", Obj(<<>>))>>)

\* Documents: mappings over the node ids "1", "2" and "workflow" (integer-like
\* keys come first in Object.entries), of nodes and of values that are none.
Documents ==
  {Obj(f) : f \in ObjectsOver(<<"1", "2", "workflow">>,
                              <<Nodes \cup Leaves, {OneNode, JsString},
                                Nodes \cup Leaves>>)}

\* What the host sends as payload.workflow: a document, bare, in an envelope
\* or in two, or a value that is no document.
NormalizerInputs ==
  Leaves \cup Documents \cup {Envelope(doc) : doc \in Documents}
         \cup {Envelope(Envelope(doc)) : doc \in Documents}

\* ---------------------------------------------------------------- messages

Workflows == {Null, "wfA"}

\* A message's payload: absent (has = FALSE) or an object whose workflow
\* field is a document or missing.
Payloads == {[has |-> FALSE, workflow |-> Null]} \cup
            [has : {TRUE}, workflow : Workflows]

NoPayload == [has |-> FALSE, workflow |-> Null]

\* data.payload || {}
PayloadOrEmpty(payload) ==
  IF payload.has THEN payload ELSE [has |-> TRUE, workflow |-> Null]

\* payload?.workflow
WorkflowOf(payload) == IF payload.has THEN payload.workflow ELSE Null

\* The messages the window receives: the host's commands, a host message of
\* an unknown type, and a message of another sender.
MsgInputs ==
  [source : {HOST_NS}, type : {"ping", "export-workflow", "reload"},
   payload : {NoPayload}] \cup
  [source : {HOST_NS}, type : {"import-workflow"}, payload : Payloads] \cup
  [source : {"other-frame"}, type : {"import-workflow"},
   payload : {[has |-> TRUE, workflow |-> "wfA"]}]

\* The handler of one message event.  pc: "ignored", "queued", a sleep of one
\* of the three waits, "ingest" (awaiting app.handleFile), "delay" (the 100 ms
\* between attempts), "snapshot" (awaiting app.graphToPrompt), "done".
\* via: "direct" (the listener ran importWorkflow) or "drain" (the drain did).
\* attempt: ingestion attempts started.  Observations of the call, not state of
\* the program: races: attempts that failed with the race signature; last: the
\* last error app.handleFile threw; dirty: calls of setDirtyCanvas; snap: what
\* the snapshot of this handler met (NoSnap before it).
NoSnap == [g2p |-> "none", hasGraph |-> FALSE, ser |-> "none"]

NewTask(msg, pc) ==
  [msg |-> msg, pc |-> pc, elapsed |-> 0, attempt |-> 0, via |-> "none",
   races |-> 0, last |-> NoError, dirty |-> 0, snap |-> NoSnap]

\* ------------------------------------------------------------ importWorkflow

MissingPayload == NewError("Missing workflow payload")

CapabilityUnavailable == NewError("Comfy app.handleFile is unavailable")

\* importWorkflow from the wait `stage` to its next suspension or throw:
\* the three waits, the handleFile test, then the first ingestion attempt.
ImportFromWait(stage, elapsed, e, d) ==
  LET w == ReadinessWaits(stage, elapsed, e, d) IN
  CASE w.out = "sleep" ->
         [pc |-> SleepPc(w.stage), elapsed |-> w.elapsed, attempt |-> 0,
          error |-> NoError, debug |-> FALSE]
    [] w.out = "timeout" ->
         [pc |-> "throw", elapsed |-> 0, attempt |-> 0,
          error |-> TimeoutError(w.stage), debug |-> FALSE]
    [] w.out = "return" ->
         IF ~e.handleFile
         THEN [pc |-> "throw", elapsed |-> 0, attempt |-> 0,
               error |-> CapabilityUnavailable, debug |-> FALSE]
         ELSE [pc |-> "ingest", elapsed |-> 0, attempt |-> 1,
               error |-> NoError, debug |-> TRUE]

\* Mutant: no test of the workflow argument.
importWorkflowUnchecked(workflow, e, d) == ImportFromWait("canvas", 0, e, d)

\* importWorkflow(workflow) from its call to its first suspension or throw.
importWorkflow(workflow, e, d) ==
  IF workflow = Null
  THEN [pc |-> "throw", elapsed |-> 0, attempt |-> 0,
        error |-> MissingPayload, debug |-> FALSE]
  ELSE ImportFromWait("canvas", 0, e, d)

\* Mutants of the catch branch: the budget is one attempt short; every error
\* is retried until the budget is spent.
RethrowsOneShort(error, attempt) ==
  ~isCanvasStoreRace(error) \/ attempt >= maxAttempts - 1

RethrowsOnlyLast(error, attempt) == attempt = maxAttempts

\* The catch branch of the retry loop: throw error, or wait and try again.
Rethrows(error, attempt) ==
  ~isCanvasStoreRace(error) \/ attempt = maxAttempts

\* ------------------------------------------------- the session in one task

\* The session state a task reads and writes, as one value, so that a task
\* that runs several continuations (the drain) threads it through them.
World ==
  [tasks |-> tasks, outbox |-> outbox, queue |-> queuedMessages,
   debug |-> debugLoggedOnce, cur |-> drainCur, order |-> dispatchOrder,
   ready |-> bridgeReady, setup |-> setupPc, elapsed |-> setupElapsed,
   polled |-> polled]

SetWorld(w) ==
  /\ tasks' = w.tasks
  /\ outbox' = w.outbox
  /\ queuedMessages' = w.queue
  /\ debugLoggedOnce' = w.debug
  /\ drainCur' = w.cur
  /\ dispatchOrder' = w.order
  /\ bridgeReady' = w.ready
  /\ setupPc' = w.setup
  /\ setupElapsed' = w.elapsed
  /\ polled' = w.polled

\* Mutants of push: the entry is queued twice; the entry is put at the head.
PushTwice(queue, item) == Append(Append(queue, item), item)

PushFront(queue, item) == <<item>> \o queue

\* queuedMessages.push(item)
Push(queue, item) == Append(queue, item)

\* queuedMessages.shift(): the element removed and the queue left.
Shift(queue) == [next |-> Head(queue), rest |-> Tail(queue)]

\* The handler of message id posts its completion event and ends.
Post(w, id, event) ==
  [w EXCEPT !.tasks[id].pc = "done", !.outbox = postToParent(@, event)]

\* The handler of message id is left suspended inside importWorkflow.
Suspend(w, id, r) ==
  [w EXCEPT !.tasks[id].pc = r.pc, !.tasks[id].elapsed = r.elapsed,
            !.tasks[id].attempt = r.attempt, !.debug = @ \/ r.debug]

\* while (queuedMessages.length) { next = shift(); ... await importWorkflow
\* ... }: the loop runs on until an import suspends or the queue is empty; an
\* import that throws before its first suspension is answered and the loop
\* goes on in the same task.  x: what the task reads of the environment.
RECURSIVE Drain(_, _)
Drain(w, x) ==
  IF w.queue = <<>> THEN [w EXCEPT !.cur = 0, !.setup = "done"]
  ELSE
    LET next == Shift(w.queue).next
        w1 == [w EXCEPT !.queue = Shift(w.queue).rest]
    IN
    IF next.type = "import-workflow"
    THEN
      LET r == importWorkflow(WorkflowOf(next.payload), x.env, x.d)
          w2 == [w1 EXCEPT !.order = Append(@, next.id),
                           !.tasks[next.id].via = "drain"]
      IN
      IF r.pc = "throw"
      THEN Drain(Post(w2, next.id,
                      ErrorEvent(next.id, "import-workflow", r.error)), x)
      ELSE [Suspend(w2, next.id, r) EXCEPT !.cur = next.id, !.setup = "draining"]
    ELSE Drain(w1, x)

\* Mutant: the drain loop does not go on after the import it awaited.
FinishStopsDrain(w, id, event, x) == Post(w, id, event)

\* The handler of message id ends with `event`; if the drain was awaiting it,
\* the drain loop goes on.
Finish(w, id, event, x) ==
  IF w.tasks[id].via = "drain" THEN Drain(Post(w, id, event), x)
  ELSE Post(w, id, event)

\* What the polls of the readiness routine have seen: graph and rendering
\* surface together (canvas), UI runtime attached and fully initialized
\* together (host), all of them together (all).  A turn of the routine polls
\* unless its wait has timed out.
NothingPolled == [canvas |-> FALSE, host |-> FALSE, all |-> FALSE]

Observed(seen, e) ==
  [canvas |-> seen.canvas \/ (e.graph /\ e.canvas),
   host |-> seen.host \/ (e.uiRuntime /\ e.vueAppReady),
   all |-> seen.all \/ (e.graph /\ e.canvas /\ e.uiRuntime /\ e.vueAppReady)]

\* The readiness routine of setup() (the async IIFE) resumed in wait `stage`.
SetupRun(w, stage, elapsed, x) ==
  LET r == ReadinessWaits(stage, elapsed, x.env, x.d)
      w0 == [w EXCEPT !.polled = IF r.out = "timeout" THEN @ ELSE Observed(@, x.env)]
  IN
  CASE r.out = "sleep" ->
         [w0 EXCEPT !.setup = SleepPc(r.stage), !.elapsed = r.elapsed]
    [] r.out = "timeout" ->
         [w0 EXCEPT !.setup = "failed", !.elapsed = 0,
                    !.outbox = postToParent(@, ErrorEvent(0, "setup", TimeoutError(r.stage)))]
    [] r.out = "return" ->
         Drain([w0 EXCEPT !.ready = TRUE, !.elapsed = 0,
                          !.outbox = postToParent(@, ReadyEvent(x.env))], x)

\* Mutant: the import is answered with the document it was given.
CompletionEventEchoes(msg, id, workflow) ==
  IF msg.type = "export-workflow" THEN ExportedEvent(id, workflow)
  ELSE ImportedEvent(id, WorkflowOf(msg.payload))

\* Mutant: an export without a snapshot is answered with an error.
CompletionEventFailsOnNull(msg, id, workflow) ==
  IF msg.type = "export-workflow" /\ workflow = Null
  THEN ErrorEvent(id, "export-workflow", NewError("No workflow snapshot"))
  ELSE IF msg.type = "export-workflow" THEN ExportedEvent(id, workflow)
  ELSE ImportedEvent(id, workflow)

CompletionEvent(msg, id, workflow) ==
  IF msg.type = "export-workflow" THEN ExportedEvent(id, workflow)
  ELSE ImportedEvent(id, workflow)

\* app.graph?.setDirtyCanvas?.(true, true)
MarkDirty(w, id, hasGraph) ==
  IF hasGraph THEN [w EXCEPT !.tasks[id].dirty = @ + 1] ELSE w

\* The outcome of a snapshot as the handler met it: app.graph and serialize
\* are read only when graphToPrompt gave no document.
Met(o, hasGraph) ==
  IF o.g2p \in PromptDocs THEN [g2p |-> o.g2p, hasGraph |-> FALSE, ser |-> "none"]
  ELSE [g2p |-> o.g2p, hasGraph |-> hasGraph, ser |-> IF hasGraph THEN o.ser ELSE "none"]

\* (await exportPromptSnapshot()) ?? safeGraphSnapshot(), then the event.
SnapshotDone(w, id, hasGraph, o, x) ==
  Finish([w EXCEPT !.tasks[id].snap = Met(o, hasGraph)], id,
         CompletionEvent(w.tasks[id].msg, id, Snapshot(o.g2p, hasGraph, o.ser)), x)

ImportedNow(w, id, hasGraph, o, x) ==
  SnapshotDone(MarkDirty(w, id, hasGraph), id, hasGraph, o, x)

\* What one task reads of the environment: the flags of the embedded
\* application and the length of the sleep it starts (if any).
Reads == [env : {env}, d : 1..TimeoutTicks]

\* The outcomes of one snapshot: what graphToPrompt does and, when that gives
\* no document and app.graph is there, what serialize does (otherwise the
\* outcome of serialize is not met: one representative is kept).
SnapshotOutcomes(g2ps, hasGraph) ==
  {o \in [g2p : g2ps, ser : SerOutcomes] :
     (o.g2p \in PromptDocs \/ ~hasGraph) => o.ser \in GraphDocs}

\* Faults in a snapshot: graphToPrompt giving no document, serialize giving none.
SnapshotCost(o, hasGraph) ==
  IF o.g2p \in PromptDocs THEN 0
  ELSE IF hasGraph /\ o.ser \notin GraphDocs THEN 2 ELSE 1

\* ------------------------------------------------------------------ actions

Init ==
  /\ env \in EnvStates
  /\ bridgeReady = FALSE
  /\ queuedMessages = <<>>
  /\ debugLoggedOnce = FALSE
  /\ outbox = <<>>
  /\ setupPc = "init"
  /\ setupElapsed = 0
  /\ drainCur = 0
  /\ tasks = <<>>
  /\ dispatchOrder = <<>>
  /\ polled = NothingPolled
  /\ msgsLeft = MaxMsgs
  /\ faultsLeft = MaxFaults
  /\ probe = NoProbe

\* The task ends in session state w, the embedded application having
\* produced `faults` faults in it.
Commit(w, faults) ==
  /\ faults <= faultsLeft
  /\ faultsLeft' = faultsLeft - faults
  /\ SetWorld(w)

\* The embedded application sets or tears down one of its readiness flags.
EnvChange ==
  /\ \E f \in EnvFlags : env' = [env EXCEPT ![f] = ~@]
  /\ UNCHANGED <<bridgeReady, queuedMessages, debugLoggedOnce, outbox, setupPc,
                 setupElapsed, drainCur, tasks, dispatchOrder, polled, msgsLeft,
                 faultsLeft, probe>>

\* setup(): starts the readiness routine, which runs to its first suspension,
\* and registers the message listener.
Setup ==
  /\ setupPc = "init"
  /\ \E x \in Reads :
       Commit(SetupRun(World, "canvas", 0, x), 0)
  /\ UNCHANGED <<env, msgsLeft, probe>>

\* The 50 ms timer of the wait the readiness routine sleeps in fires.
SetupWake ==
  /\ setupPc \in SleepPcs
  /\ \E x \in Reads :
       Commit(SetupRun(World, StageOf(setupPc), setupElapsed, x), 0)
  /\ UNCHANGED <<env, msgsLeft, probe>>

\* A message event reaches the listener (registered by setup()).
Receives ==
  /\ setupPc # "init"
  /\ msgsLeft > 0
  /\ msgsLeft' = msgsLeft - 1

Arrived(msg, pc) == [World EXCEPT !.tasks = Append(@, NewTask(msg, pc))]

NewId == Len(tasks) + 1

\* Mutant: the listener does not look at the source tag.
FromAnyone(msg) == TRUE

\* data.source === 'graviton-host'
FromHost(msg) == msg.source = HOST_NS

\* if (data.source !== 'graviton-host') return
OnForeign ==
  /\ \E msg \in MsgInputs :
       /\ ~FromHost(msg)
       /\ Receives
       /\ Commit(Arrived(msg, "ignored"), 0)
  /\ UNCHANGED <<env, probe>>

\* A host message whose type matches none of the three tests.
OnUnknown ==
  /\ \E msg \in MsgInputs :
       /\ FromHost(msg)
       /\ msg.type \notin {"ping", "export-workflow", "import-workflow"}
       /\ Receives
       /\ Commit(Arrived(msg, "ignored"), 0)
  /\ UNCHANGED <<env, probe>>

\* Mutant: ping goes through the readiness gate like import-workflow.
PingGated(w, id) ==
  IF w.ready THEN Post(w, id, PongEvent(id))
  ELSE [w EXCEPT !.tasks[id].pc = "queued",
                 !.queue = Append(@, [type |-> "ping",
                                      payload |-> PayloadOrEmpty(NoPayload),
                                      id |-> id])]

\* postToParent('pong', { now: Date.now() }); return
PingHandler(w, id) == Post(w, id, PongEvent(id))

\* data.type === 'ping'
OnPing ==
  /\ \E msg \in MsgInputs :
       /\ FromHost(msg)
       /\ msg.type = "ping"
       /\ Receives
       /\ Commit(PingHandler(Arrived(msg, "ignored"), NewId), 0)
  /\ UNCHANGED <<env, probe>>

\* data.type === 'export-workflow': exportPromptSnapshot() awaits
\* app.graphToPrompt when it is a function; otherwise the snapshot is taken
\* and posted in this task.
OnExport ==
  /\ \E msg \in MsgInputs :
       /\ FromHost(msg)
       /\ msg.type = "export-workflow"
       /\ Receives
       /\ \/ Commit(Arrived(msg, "snapshot"), 0)
          \/ \E o \in SnapshotOutcomes({"absent"}, env.graph), x \in Reads :
               Commit(SnapshotDone(Arrived(msg, "ignored"), NewId, env.graph, o, x),
                      SnapshotCost(o, env.graph))
  /\ UNCHANGED <<env, probe>>

\* Mutant: the entry is queued without the message's payload.
QueueEntryEmptyPayload(msg, id) ==
  [type |-> msg.type, payload |-> [has |-> TRUE, workflow |-> Null], id |-> id]

\* The queue entry the listener builds: { type: data.type, payload: data.payload || {} }
QueueEntry(msg, id) ==
  [type |-> msg.type, payload |-> PayloadOrEmpty(msg.payload), id |-> id]

\* Mutant: a command that comes too early is refused with an error event.
EnqueueHandlerRejects(w, msg, id) ==
  Post(w, id, ErrorEvent(id, "import-workflow", NewError("Bridge is not ready")))

EnqueueHandler(w, msg, id) ==
  [w EXCEPT !.queue = Push(@, QueueEntry(msg, id))]

\* data.type === 'import-workflow' while !bridgeReady
OnImportQueued ==
  /\ ~bridgeReady
  /\ \E msg \in MsgInputs :
       /\ FromHost(msg)
       /\ msg.type = "import-workflow"
       /\ Receives
       /\ Commit(EnqueueHandler(Arrived(msg, "queued"), msg, NewId), 0)
  /\ UNCHANGED <<env, probe>>

\* Mutant: an import that times out waiting for readiness retracts Ready.
ImportStepRetracts(w, id, r, x) ==
  IF r.pc = "throw"
  THEN [Finish(w, id, ErrorEvent(id, "import-workflow", r.error), x)
          EXCEPT !.ready = r.error \notin {TimeoutError(st) : st \in {"canvas", "ui", "host"}}]
  ELSE Suspend(w, id, r)

\* The try/catch around await importWorkflow(...), in the listener and in the
\* drain alike: r is what importWorkflow did up to its suspension or throw.
ImportStep(w, id, r, x) ==
  IF r.pc = "throw"
  THEN Finish(w, id, ErrorEvent(id, "import-workflow", r.error), x)
  ELSE Suspend(w, id, r)

\* Mutant: single flight; a command that arrives while an ingestion attempt
\* of another import is in flight waits in the queue.
DirectImportSingleFlight(w, msg, id, x) ==
  IF \E other \in 1..Len(w.tasks) : other # id /\ w.tasks[other].pc = "ingest"
  THEN [w EXCEPT !.tasks[id].pc = "queued",
                 !.queue = Push(@, QueueEntry(msg, id))]
  ELSE ImportStep([w EXCEPT !.tasks[id].via = "direct"], id,
                  importWorkflow(WorkflowOf(msg.payload), x.env, x.d), x)

DirectImport(w, msg, id, x) ==
  ImportStep([w EXCEPT !.tasks[id].via = "direct"], id,
             importWorkflow(WorkflowOf(msg.payload), x.env, x.d), x)

\* data.type === 'import-workflow' once bridgeReady
OnImportDirect ==
  /\ bridgeReady
  /\ \E msg \in MsgInputs :
       /\ FromHost(msg)
       /\ msg.type = "import-workflow"
       /\ Receives
       /\ \E x \in Reads :
            Commit(DirectImport(Arrived(msg, "ignored"), msg, NewId, x), 0)
  /\ UNCHANGED <<env, probe>>

ImportResume(w, id, x) ==
  ImportStep(w, id,
             ImportFromWait(StageOf(w.tasks[id].pc), w.tasks[id].elapsed,
                            x.env, x.d), x)

\* The 50 ms timer of a wait inside importWorkflow fires.
ImportWake ==
  /\ \E id \in 1..Len(tasks) :
       /\ tasks[id].pc \in SleepPcs
       /\ \E x \in Reads :
            Commit(ImportResume(World, id, x), 0)
  /\ UNCHANGED <<env, msgsLeft, probe>>

\* await importOnce() resolves: break, mark dirty, then the snapshot.
IngestOk ==
  /\ \E id \in 1..Len(tasks) :
       /\ tasks[id].pc = "ingest"
       /\ \/ Commit([MarkDirty(World, id, env.graph) EXCEPT !.tasks[id].pc = "snapshot"], 0)
          \/ \E x \in Reads, o \in SnapshotOutcomes({"absent"}, env.graph) :
               Commit(ImportedNow(World, id, env.graph, o, x),
                      SnapshotCost(o, env.graph))
  /\ UNCHANGED <<env, msgsLeft, probe>>

\* Mutant: the next attempt starts in the catch branch, without the delay.
IngestCatchNoDelay(w, id, error, x) ==
  LET w1 == [w EXCEPT !.tasks[id].last = error,
                      !.tasks[id].races = IF isCanvasStoreRace(error) THEN @ + 1 ELSE @]
  IN
  IF Rethrows(error, w.tasks[id].attempt)
  THEN Finish(w1, id, ErrorEvent(id, "import-workflow", error), x)
  ELSE [w1 EXCEPT !.tasks[id].attempt = @ + 1]

\* The catch branch: rethrow (answered by the caller's catch) or start the delay.
IngestCatch(w, id, error, x) ==
  LET w1 == [w EXCEPT !.tasks[id].last = error,
                      !.tasks[id].races = IF isCanvasStoreRace(error) THEN @ + 1 ELSE @]
  IN
  IF Rethrows(error, w.tasks[id].attempt)
  THEN Finish(w1, id, ErrorEvent(id, "import-workflow", error), x)
  ELSE [w1 EXCEPT !.tasks[id].pc = "delay"]

\* await importOnce() rejects.
IngestThrows ==
  /\ \E id \in 1..Len(tasks), error \in Thrown :
       /\ tasks[id].pc = "ingest"
       /\ \E x \in Reads :
            Commit(IngestCatch(World, id, error, x), 1)
  /\ UNCHANGED <<env, msgsLeft, probe>>

\* The 100 ms delay ends: attempt += 1 and the next importOnce() starts.
DelayElapsed ==
  /\ \E id \in 1..Len(tasks) :
       /\ tasks[id].pc = "delay"
       /\ Commit([World EXCEPT !.tasks[id].pc = "ingest",
                               !.tasks[id].attempt = @ + 1], 0)
  /\ UNCHANGED <<env, msgsLeft, probe>>

\* await app.graphToPrompt(...) settles; the snapshot is posted.
SnapshotReturn ==
  /\ \E id \in 1..Len(tasks), o \in SnapshotOutcomes(G2PReturns, env.graph) :
       /\ tasks[id].pc = "snapshot"
       /\ \E x \in Reads :
            Commit(SnapshotDone(World, id, env.graph, o, x),
                   SnapshotCost(o, env.graph))
  /\ UNCHANGED <<env, msgsLeft, probe>>

Next ==
  \/ EnvChange
  \/ Setup
  \/ SetupWake
  \/ OnForeign
  \/ OnUnknown
  \/ OnPing
  \/ OnExport
  \/ OnImportQueued
  \/ OnImportDirect
  \/ ImportWake
  \/ IngestOk
  \/ IngestThrows
  \/ DelayElapsed
  \/ SnapshotReturn

Spec == Init /\ [][Next]_vars

\* The drain scenario: two import-workflow commands were queued while the
\* readiness routine sleeps in its first wait (a state Spec reaches: Setup
\* with no graph yet, then OnImportQueued twice while the application goes
\* on initializing), the host goes on sending import-workflow commands, and
\* the embedded application produces no fault.
EarlyImport == [source |-> HOST_NS, type |-> "import-workflow",
                payload |-> [has |-> TRUE, workflow |-> "wfA"]]

InitDrain ==
  /\ env \in EnvStates
  /\ bridgeReady = FALSE
  /\ queuedMessages = <<QueueEntry(EarlyImport, 1), QueueEntry(EarlyImport, 2)>>
  /\ debugLoggedOnce = FALSE
  /\ outbox = <<>>
  /\ setupPc = "sleepCanvas"
  /\ setupElapsed = 1
  /\ drainCur = 0
  /\ tasks = <<NewTask(EarlyImport, "queued"), NewTask(EarlyImport, "queued")>>
  /\ dispatchOrder = <<>>
  /\ polled = NothingPolled
  /\ msgsLeft = MaxMsgs - 1
  /\ faultsLeft = 0
  /\ probe = NoProbe

NextDrain ==
  \/ EnvChange
  \/ SetupWake
  \/ OnImportQueued
  \/ OnImportDirect
  \/ ImportWake
  \/ IngestOk
  \/ SnapshotReturn

SpecDrain == InitDrain /\ [][NextDrain]_vars

\* A Ready session with nothing queued (Spec reaches it: Setup with every
\* readiness flag set), in state e of the embedded application, the host
\* having `msgs` messages to send and the application `faults` faults to
\* produce.
ReadySession(e, msgs, faults) ==
  /\ env = e
  /\ bridgeReady = TRUE
  /\ queuedMessages = <<>>
  /\ debugLoggedOnce = FALSE
  /\ outbox = <<ReadyEvent(AllSet)>>
  /\ setupPc = "done"
  /\ setupElapsed = 0
  /\ drainCur = 0
  /\ tasks = <<>>
  /\ dispatchOrder = <<>>
  /\ polled = [canvas |-> TRUE, host |-> TRUE, all |-> TRUE]
  /\ msgsLeft = msgs
  /\ faultsLeft = faults
  /\ probe = NoProbe

\* The retry scenario: one import-workflow command in a Ready session whose
\* readiness flags stay set; the ingestion capability may fail on every
\* attempt of the budget and once more.
InitRetry == ReadySession(AllSet, 1, maxAttempts + 1)

NextRetry ==
  \/ OnImportDirect
  \/ IngestOk
  \/ IngestThrows
  \/ DelayElapsed
  \/ SnapshotReturn

SpecRetry == InitRetry /\ [][NextRetry]_vars

\* The export scenario: one export-workflow command in a Ready session; the
\* embedded application is in any state and both snapshot paths may fail.
InitExport == \E e \in EnvStates : ReadySession(e, 1, 2)

NextExport ==
  \/ EnvChange
  \/ OnExport
  \/ SnapshotReturn

SpecExport == InitExport /\ [][NextExport]_vars

\* The normalizer on its own: a value is drawn, importWorkflow's
\* normalization step is applied to it, and then either to the value in an
\* envelope or to its own result.
InitNormalize ==
  /\ probe \in {[kind |-> "input", workflow |-> v] : v \in NormalizerInputs}
  /\ env = AllSet
  /\ bridgeReady = FALSE
  /\ queuedMessages = <<>>
  /\ debugLoggedOnce = FALSE
  /\ outbox = <<>>
  /\ setupPc = "init"
  /\ setupElapsed = 0
  /\ drainCur = 0
  /\ tasks = <<>>
  /\ dispatchOrder = <<>>
  /\ polled = NothingPolled
  /\ msgsLeft = 0
  /\ faultsLeft = 0

SessionUnchanged ==
  UNCHANGED <<env, bridgeReady, queuedMessages, debugLoggedOnce, outbox, setupPc,
              setupElapsed, drainCur, tasks, dispatchOrder, polled, msgsLeft,
              faultsLeft>>

Normalize ==
  /\ probe.kind = "input"
  /\ probe' = [kind |-> "normalized", workflow |-> probe.workflow,
               extracted |-> extractWorkflowPayload(probe.workflow),
               prompt |-> isApiPromptFormat(extractWorkflowPayload(probe.workflow)),
               normalized |-> normalizedWorkflow(probe.workflow)]
  /\ SessionUnchanged

NormalizeEnveloped ==
  /\ probe.kind = "normalized"
  /\ probe' = [kind |-> "enveloped", workflow |-> probe.workflow,
               normalized |-> probe.normalized,
               enveloped |-> normalizedWorkflow(Envelope(probe.workflow))]
  /\ SessionUnchanged

NormalizeAgain ==
  /\ probe.kind = "normalized"
  /\ probe' = [kind |-> "renormalized", workflow |-> probe.workflow,
               normalized |-> probe.normalized,
               again |-> normalizedWorkflow(probe.normalized)]
  /\ SessionUnchanged

NextNormalize ==
  \/ Normalize
  \/ NormalizeEnveloped
  \/ NormalizeAgain

SpecNormalize == InitNormalize /\ [][NextNormalize]_vars

\* ------------------------------------------------------------ observations

TaskIds == 1..Len(tasks)

IsCommand(id) ==
  /\ tasks[id].msg.source = HOST_NS
  /\ tasks[id].msg.type \in {"import-workflow", "export-workflow"}

IsCompletion(event) ==
  event.type \in {"workflow-imported", "workflow-exported", "error"}

\* The positions in `out` of the completion events of message id.
CompletionsIn(out, id) ==
  {k \in 1..Len(out) : out[k].id = id /\ IsCompletion(out[k])}

CountType(out, type) == Cardinality({k \in 1..Len(out) : out[k].type = type})

\* Nothing is pending in the bridge: the readiness routine has ended and no
\* handler waits for a timer or for the embedded application.
Quiescent ==
  /\ setupPc \in {"done", "failed"}
  /\ \A id \in TaskIds : tasks[id].pc \in {"done", "ignored", "queued"}

\* The commands that went through the queue, in arrival order, are the ids
\* of the handlers that were queued or that the drain took over.
WasQueued(id) == tasks[id].pc = "queued" \/ tasks[id].via = "drain"

QueueIds == [k \in 1..Len(queuedMessages) |-> queuedMessages[k].id]

\* ------------------------------------------------------------------ claims

\* C1.  Every import-workflow or export-workflow message the bridge receives
\* is eventually followed by a completion event for it.  In the form a finite
\* run refutes: once nothing is pending in the bridge, every received command
\* has its completion event.
C1_EveryCommandAnswered ==
  Quiescent => \A id \in TaskIds : IsCommand(id) => CompletionsIn(outbox, id) # {}

\* C2.  No command yields more than one completion event: an import-workflow
\* message has at most one of workflow-imported / error(import-workflow), an
\* export-workflow message at most one workflow-exported, and nothing else.
C2_AtMostOneCompletion ==
  \A id \in TaskIds :
    /\ Cardinality(CompletionsIn(outbox, id)) <= 1
    /\ \A k \in CompletionsIn(outbox, id) :
         IF tasks[id].msg.type = "export-workflow"
         THEN outbox[k].type = "workflow-exported"
         ELSE /\ tasks[id].msg.type = "import-workflow"
              /\ \/ outbox[k].type = "workflow-imported"
                 \/ outbox[k].type = "error" /\ outbox[k].stage = "import-workflow"

\* A queued command and a directly dispatched one have both been answered.
C2_Witness ==
  \E a, b \in TaskIds :
    /\ tasks[a].via = "drain" /\ tasks[a].pc = "done"
    /\ tasks[b].via = "direct" /\ tasks[b].pc = "done"
    /\ Cardinality(CompletionsIn(outbox, a)) = 1
    /\ Cardinality(CompletionsIn(outbox, b)) = 1

\* C3.  The import-workflow commands received before Ready are handed to
\* importWorkflow in their arrival order: what the drain has dispatched,
\* followed by what is still queued, is the commands that went through the
\* queue in arrival order, each once.
C3_FifoDrain ==
  LET all == dispatchOrder \o QueueIds IN
  /\ \A i, j \in 1..Len(all) : i < j => all[i] < all[j]
  /\ {all[k] : k \in 1..Len(all)} = {id \in TaskIds : WasQueued(id)}
  /\ ~bridgeReady => dispatchOrder = <<>>
  /\ setupPc = "done" => queuedMessages = <<>>

\* Two queued commands have been drained.
C3_Witness == Len(dispatchOrder) >= 2 /\ setupPc = "done"

\* C4.  No import-workflow that arrives after the Ready transition begins its
\* import (starts an ingestion attempt) while a command queued before the
\* transition is still in the queue.
C4_DrainBeforePostReady ==
  (\E id \in TaskIds : tasks[id].via = "direct" /\ tasks[id].attempt >= 1)
    => queuedMessages = <<>>

\* C5.  A ping is answered with exactly one pong in the step that handles it,
\* whatever the session state, and changes neither ReadinessState nor the queue.
C5_PingAnswered ==
  [][ (/\ Len(tasks') = Len(tasks) + 1
       /\ tasks'[Len(tasks')].msg.source = HOST_NS
       /\ tasks'[Len(tasks')].msg.type = "ping")
      => /\ outbox' = Append(outbox, PongEvent(Len(tasks')))
         /\ tasks'[Len(tasks')].pc = "done"
         /\ bridgeReady' = bridgeReady
         /\ queuedMessages' = queuedMessages ]_vars

\* A ping was answered while NotReady with a command queued and, in the same
\* run, none is pending for it.
C5_Witness ==
  /\ ~bridgeReady
  /\ queuedMessages # <<>>
  /\ Len(outbox) > 0
  /\ outbox[Len(outbox)].type = "pong"
  /\ outbox[Len(outbox)].id = Len(tasks)

\* C6.  Once Ready, always Ready; the ready event is posted at most once, and
\* only in the step that makes the session Ready.
C6_ReadyMonotonic ==
  [][ /\ bridgeReady => bridgeReady'
      /\ CountType(outbox', "ready") <= 1
      /\ CountType(outbox', "ready") # CountType(outbox, "ready")
           => ~bridgeReady /\ bridgeReady' ]_vars

\* The session is Ready although no readiness predicate holds any more.
C6_Witness ==
  /\ bridgeReady
  /\ CountType(outbox, "ready") = 1
  /\ ~env.graph /\ ~env.canvas /\ ~env.uiRuntime /\ ~env.vueAppReady

\* The readiness routine has ended.
SetupEnded == setupPc \in {"draining", "done", "failed"}

SetupErrors ==
  {k \in 1..Len(outbox) : outbox[k].type = "error" /\ outbox[k].stage = "setup"}

\* C7 as stated.  The session becomes Ready only if all readiness
\* preconditions held together at one poll instant of the readiness routine;
\* otherwise it never becomes Ready and the routine ends with the setup error.
C7_ReadyOnlyIfSimultaneous ==
  /\ bridgeReady => polled.all
  /\ (SetupEnded /\ ~polled.all) => (~bridgeReady /\ SetupErrors # {})

\* C7 as amended.  The session becomes Ready only if a poll of the readiness
\* routine saw graph and rendering surface together and a poll saw the UI
\* runtime attached and fully initialized; if the routine ends without both,
\* the session is not Ready and exactly one setup error, a timeout, is posted;
\* a failed routine never makes the session Ready.
C7_ReadyOnlyIfEachWaitPassed ==
  /\ bridgeReady => (polled.canvas /\ polled.host)
  /\ (SetupEnded /\ ~(polled.canvas /\ polled.host)) => setupPc = "failed"
  /\ setupPc = "failed"
       => /\ ~bridgeReady
          /\ Cardinality(SetupErrors) = 1
          /\ \A k \in SetupErrors :
               \E st \in {"canvas", "ui", "host"} :
                 outbox[k] = ErrorEvent(0, "setup", TimeoutError(st))
  /\ setupPc # "failed" => SetupErrors = {}

\* Ready although the preconditions never held together at a poll.
C7_Witness == bridgeReady /\ polled.canvas /\ polled.host /\ ~polled.all

ImportedEvents(id) ==
  {k \in 1..Len(outbox) : outbox[k].id = id /\ outbox[k].type = "workflow-imported"}

\* C8.  k race failures then success: the import succeeds after exactly k+1
\* attempts (k+1 <= 30); race failures on all of the first 30 attempts: exactly
\* 30 attempts, then the error event with the message of the 30th error.
C8_RetryBudget ==
  \A id \in TaskIds :
    LET t == tasks[id] IN
    /\ t.attempt <= maxAttempts
    /\ t.pc = "ingest" => t.attempt = t.races + 1
    /\ t.pc = "delay" => t.attempt = t.races /\ t.races < maxAttempts
    /\ (t.pc = "snapshot" \/ ImportedEvents(id) # {})
         => t.attempt = t.races + 1
    /\ (t.pc = "done" /\ t.last \in RaceThrown /\ ImportedEvents(id) = {})
         => /\ t.attempt = maxAttempts
            /\ t.races = maxAttempts
            /\ \E k \in 1..Len(outbox) :
                 outbox[k] = ErrorEvent(id, "import-workflow", t.last)
            /\ Cardinality(CompletionsIn(outbox, id)) = 1

\* The budget was spent on race failures and the last error, the one with
\* the longer message, is what the error event carries.
C8_Witness ==
  \E id \in TaskIds :
    /\ tasks[id].pc = "done"
    /\ tasks[id].attempt = maxAttempts
    /\ tasks[id].races = maxAttempts
    /\ Len(tasks[id].last.message) > Len(RaceSignature)
    /\ outbox[Len(outbox)] = ErrorEvent(id, "import-workflow", tasks[id].last)

\* C9.  An ingestion failure without the race signature ends the import at
\* once: no further attempt, no delay, one error event with stage
\* import-workflow carrying that error, on the first attempt or after
\* transient failures.
C9_FatalNotRetried ==
  \A id \in TaskIds :
    LET t == tasks[id] IN
    t.last \in FatalThrown
      => /\ t.pc = "done"
         /\ t.attempt = t.races + 1
         /\ Cardinality(CompletionsIn(outbox, id)) = 1
         /\ \A k \in CompletionsIn(outbox, id) :
              outbox[k] = ErrorEvent(id, "import-workflow", t.last)

\* A fatal failure that followed transient ones.
C9_Witness ==
  \E id \in TaskIds : tasks[id].last \in FatalThrown /\ tasks[id].races >= 1

\* The structural path as the export met it.
Structural(snap) ==
  IF snap.hasGraph /\ snap.ser \in GraphDocs THEN snap.ser ELSE Null

ExportsDone == {id \in TaskIds : tasks[id].msg.type = "export-workflow"
                                  /\ tasks[id].pc = "done"}

\* C10 as stated.  Export returns the graphToPrompt result whenever the
\* capability is present and its call succeeds (does not throw), the
\* structural serialization when it throws or is absent, and null when both
\* paths are unavailable or fail; never an error.
C10_ExportAsStated ==
  \A id \in ExportsDone :
    LET snap == tasks[id].snap IN
    \A k \in CompletionsIn(outbox, id) :
      /\ outbox[k].type = "workflow-exported"
      /\ outbox[k].workflow =
           IF snap.g2p \in {"absent", "throws"} THEN Structural(snap)
           ELSE exportPromptSnapshot(snap.g2p)

\* C10 as amended.  Export returns the graphToPrompt output whenever the
\* capability is present, its call succeeds and yields an output; the
\* structural serialization when the capability is absent, throws or yields no
\* output; null when neither path gives a document; never an error.
C10_ExportFallback ==
  \A id \in ExportsDone :
    LET snap == tasks[id].snap IN
    /\ Cardinality(CompletionsIn(outbox, id)) = 1
    /\ \A k \in CompletionsIn(outbox, id) :
         /\ outbox[k].type = "workflow-exported"
         /\ outbox[k].workflow =
              IF snap.g2p \in PromptDocs THEN snap.g2p ELSE Structural(snap)

\* graphToPrompt succeeded without an output and the export fell back to
\* the structural serialization.
C10_Witness ==
  \E id \in ExportsDone :
    /\ tasks[id].snap.g2p = "noOutput"
    /\ outbox[Len(outbox)] = ExportedEvent(id, "graphDoc")

\* A step in which a message event reaches the listener: the message.
ArrivesNow == Len(tasks') = Len(tasks) + 1

ArrivingId == Len(tasks) + 1

ArrivingMsg == tasks'[ArrivingId].msg

\* Nothing but the arriving handler's own entry changes in tasks.
OnlyArrival == \A id \in TaskIds : tasks'[id] = tasks[id]

QueuedNow(payload) ==
  /\ queuedMessages' = Append(queuedMessages,
                              [type |-> "import-workflow", payload |-> payload,
                               id |-> ArrivingId])
  /\ tasks'[ArrivingId].pc = "queued"
  /\ tasks'[ArrivingId].attempt = 0
  /\ OnlyArrival
  /\ outbox' = outbox
  /\ bridgeReady' = bridgeReady

DispatchedDirectly ==
  /\ tasks'[ArrivingId].via = "direct"
  /\ tasks'[ArrivingId].pc # "queued"
  /\ \A k \in 1..Len(queuedMessages') : queuedMessages'[k].id # ArrivingId

ArrivingImport ==
  /\ ArrivesNow
  /\ ArrivingMsg.source = HOST_NS
  /\ ArrivingMsg.type = "import-workflow"

\* C11 as stated.  An import-workflow received while NotReady is appended to
\* the command queue with its payload unchanged, with no ingestion attempt and
\* no outbound event in that step; once Ready an arriving import-workflow is
\* dispatched directly and the queue never grows again.
C11_QueuedVerbatim ==
  [][ /\ (ArrivingImport /\ ~bridgeReady) => QueuedNow(ArrivingMsg.payload)
      /\ (ArrivingImport /\ bridgeReady) => DispatchedDirectly
      /\ bridgeReady => Len(queuedMessages') <= Len(queuedMessages) ]_vars

\* C11 as amended.  As stated, except for the payload: a message with a
\* payload is queued with that payload unchanged, a message without one is
\* queued with an empty object as payload; in both cases the workflow the
\* drain will read from the entry is the workflow of the message.
C11_QueuedPayloadOrEmpty ==
  [][ /\ (ArrivingImport /\ ~bridgeReady)
          => /\ QueuedNow(IF ArrivingMsg.payload.has THEN ArrivingMsg.payload
                          ELSE [has |-> TRUE, workflow |-> Null])
             /\ WorkflowOf(queuedMessages'[Len(queuedMessages')].payload)
                  = WorkflowOf(ArrivingMsg.payload)
      /\ (ArrivingImport /\ bridgeReady) => DispatchedDirectly
      /\ bridgeReady => Len(queuedMessages') <= Len(queuedMessages) ]_vars

\* Two commands wait in the queue, one that came with a workflow and one that
\* came without a payload.
C11_Witness ==
  /\ ~bridgeReady
  /\ \E j, k \in 1..Len(queuedMessages) :
       /\ ~tasks[queuedMessages[j].id].msg.payload.has
       /\ queuedMessages[j].payload = [has |-> TRUE, workflow |-> Null]
       /\ queuedMessages[k].payload = [has |-> TRUE, workflow |-> "wfA"]
       /\ tasks[queuedMessages[k].id].msg.payload = queuedMessages[k].payload

IsExport(id) ==
  tasks[id].msg.source = HOST_NS /\ tasks[id].msg.type = "export-workflow"

\* C12.  An export-workflow is never queued and never gated on readiness:
\* its handler takes the snapshot on arrival, answers with one
\* workflow-exported event and never with an error, the workflow being null
\* when neither snapshot path gives a document, and its steps leave
\* ReadinessState and the command queue unchanged.
C12_ExportNeverGated ==
  [][ /\ (ArrivesNow /\ ArrivingMsg.source = HOST_NS
                     /\ ArrivingMsg.type = "export-workflow")
          => /\ tasks'[ArrivingId].pc \in {"snapshot", "done"}
             /\ OnlyArrival
             /\ bridgeReady' = bridgeReady
             /\ queuedMessages' = queuedMessages
             /\ IF tasks'[ArrivingId].pc = "snapshot" THEN outbox' = outbox
                ELSE /\ Len(outbox') = Len(outbox) + 1
                     /\ outbox'[Len(outbox')] =
                          ExportedEvent(ArrivingId, Structural(tasks'[ArrivingId].snap))
      /\ \A id \in TaskIds :
           (IsExport(id) /\ tasks[id].pc = "snapshot" /\ tasks'[id].pc # "snapshot")
             => /\ tasks'[id].pc = "done"
                /\ bridgeReady' = bridgeReady
                /\ queuedMessages' = queuedMessages
                /\ Len(outbox') = Len(outbox) + 1
                /\ outbox'[Len(outbox')].type = "workflow-exported"
                /\ outbox'[Len(outbox')].id = id
                /\ (tasks'[id].snap.g2p \notin PromptDocs
                    /\ Structural(tasks'[id].snap) = Null)
                     => outbox'[Len(outbox')].workflow = Null
      /\ \A k \in 1..Len(outbox') :
           (outbox'[k].id \in TaskIds /\ IsExport(outbox'[k].id))
             => outbox'[k].type = "workflow-exported" ]_vars

\* An export was answered, with a null workflow, while the session was
\* NotReady and a command was waiting in the queue.
C12_Witness ==
  /\ ~bridgeReady
  /\ queuedMessages # <<>>
  /\ \E id \in TaskIds :
       /\ IsExport(id)
       /\ tasks[id].pc = "done"
       /\ \E k \in 1..Len(outbox) : outbox[k] = ExportedEvent(id, Null)

\* C13.  A message whose source tag is not the host tag, and a host message
\* of a type other than ping, export-workflow and import-workflow, is ignored:
\* the step posts nothing and leaves ReadinessState, the command queue and the
\* diagnostic flag as they were.
C13_IgnoredSilently ==
  [][ (ArrivesNow /\ (\/ ArrivingMsg.source # HOST_NS
                      \/ ArrivingMsg.type \notin {"ping", "export-workflow",
                                                  "import-workflow"}))
        => /\ outbox' = outbox
           /\ bridgeReady' = bridgeReady
           /\ queuedMessages' = queuedMessages
           /\ debugLoggedOnce' = debugLoggedOnce
           /\ OnlyArrival
           /\ tasks'[ArrivingId] = NewTask(ArrivingMsg, "ignored") ]_vars

\* A message of another sender and a host message of an unknown type were
\* both received.
C13_Witness ==
  \E i, j \in TaskIds :
    /\ tasks[i].msg.source # HOST_NS
    /\ tasks[i].msg.type = "import-workflow"
    /\ tasks[j].msg.source = HOST_NS
    /\ tasks[j].msg.type = "reload"

\* The value has a property `key` whose value is of one of `kinds`.
HasField(v, key, kinds) ==
  \E i \in 1..Len(v.fields) : v.fields[i].key = key /\ v.fields[i].value.kind \in kinds

\* An operation record: string class_type and non-array object inputs.
IsOperationRecord(v) ==
  /\ v.kind = "object"
  /\ HasField(v, "class_type", {"string", "emptyString"})
  /\ HasField(v, "inputs", {"object"})

\* PromptForm: a non-array mapping, non-empty, every value an operation record.
IsPromptForm(v) ==
  /\ v.kind = "object"
  /\ v.fields # <<>>
  /\ \A i \in 1..Len(v.fields) : IsOperationRecord(v.fields[i].value)

\* A workflow document is a structured value; it is a wrapper when it is a
\* mapping with an object-valued field named workflow (typeof 'object': a
\* mapping or an array).
IsDocument(v) == v.kind \in {"object", "array"}

IsWrapper(v) == v.kind = "object" /\ HasField(v, "workflow", {"object", "array"})

\* C14.  For every document X that is not itself a wrapper, normalizing
\* {workflow: X} gives what normalizing X gives; and one level of envelope
\* only is removed: for every document X, wrapper or not, normalizing
\* {workflow: X} gives X with its own envelope, if it has one, still on.
C14_UnwrapEquivalence ==
  (probe.kind = "enveloped" /\ IsDocument(probe.workflow))
    => /\ ~IsWrapper(probe.workflow) => probe.enveloped = probe.normalized
       /\ probe.enveloped = probe.workflow

\* A PromptForm document of two nodes, normalized bare and in an envelope.
C14_Witness ==
  /\ probe.kind = "enveloped"
  /\ IsPromptForm(probe.workflow)
  /\ ~IsWrapper(probe.workflow)
  /\ Len(probe.workflow.fields) = 2
  /\ probe.enveloped = probe.workflow

\* C15.  Whenever normalize(d) is PromptForm, normalizing it again gives the
\* same document, whatever the node ids are, and the filtering step removes
\* no conforming entry.
C15_IdempotentOnPromptForm ==
  (probe.kind = "renormalized" /\ IsPromptForm(probe.normalized))
    => /\ probe.again = probe.normalized
       /\ normalizeApiPrompt(probe.normalized) = probe.normalized

\* C16.  The unwrapped document is classified PromptForm exactly when it is a
\* non-empty non-array mapping whose values are all operation records; a
\* document that is not goes to ingestion as it is, every entry kept.
C16_Classification ==
  probe.kind = "normalized"
    => /\ probe.prompt <=> IsPromptForm(probe.extracted)
       /\ ~probe.prompt => probe.normalized = probe.extracted

\* A mapping with one operation record and one value that is none: GraphForm,
\* passed on with both entries.
C16_Witness ==
  /\ probe.kind = "normalized"
  /\ ~probe.prompt
  /\ Len(probe.extracted.fields) = 2
  /\ IsOperationRecord(probe.extracted.fields[1].value)
  /\ ~IsOperationRecord(probe.extracted.fields[2].value)
  /\ probe.normalized = probe.extracted

IsImport(msg) == msg.source = HOST_NS /\ msg.type = "import-workflow"

\* The handler of message id ends in this step.
EndsNow(id) ==
  /\ tasks'[id].pc = "done"
  /\ id \in TaskIds => tasks[id].pc # "done"

\* The import of message id has failed with `error` before any ingestion
\* attempt: one completion event, the error event of stage import-workflow.
FailedEarlyWith(id, error) ==
  /\ tasks'[id].attempt = 0
  /\ tasks'[id].dirty = 0
  /\ Cardinality(CompletionsIn(outbox', id)) = 1
  /\ \A k \in CompletionsIn(outbox', id) :
       outbox'[k] = ErrorEvent(id, "import-workflow", error)

TimeoutErrors == {TimeoutError(st) : st \in {"canvas", "ui", "host"}}

C18_NoReadinessTimeoutAfterReady ==
  \A id \in TaskIds :
    (IsImport(tasks[id].msg) /\ tasks[id].via # "none")
      => /\ tasks[id].pc \notin SleepPcs
         /\ \A k \in CompletionsIn(outbox, id) :
              outbox[k].type = "error"
                => \A error \in TimeoutErrors : outbox[k].message # ErrorMessage(error)
         /\ (tasks[id].pc = "done" /\ tasks[id].attempt = 0
             /\ WorkflowOf(tasks[id].msg.payload) # Null)
              => \E k \in CompletionsIn(outbox, id) :
                   outbox[k] = ErrorEvent(id, "import-workflow", CapabilityUnavailable)

\* The snapshot as the handler of message id met it: the richer path's
\* document, else the structural one, else null.
Reread(id) ==
  IF tasks[id].snap.g2p \in PromptDocs THEN tasks[id].snap.g2p
  ELSE Structural(tasks[id].snap)

\* C19 as stated.  A successful import has marked the canvas dirty exactly
\* once, and its workflow-imported event carries the snapshot re-read after
\* ingestion, not the input document; an import answered with
\* workflow-imported has made an attempt that did not fail.
C19_DirtyOnceThenReread ==
  \A id \in TaskIds :
    ImportedEvents(id) # {}
      => /\ tasks[id].dirty = 1
         /\ tasks[id].attempt = tasks[id].races + 1
         /\ \A k \in ImportedEvents(id) :
              /\ outbox[k].workflow = Reread(id)
              /\ outbox[k].workflow # WorkflowOf(tasks[id].msg.payload)

\* What the handler of message id was before this step.
Before(id) ==
  IF id \in TaskIds THEN tasks[id] ELSE NewTask(tasks'[id].msg, "ignored")

\* await importOnce() of message id resolves in this step.
SucceedsNow(id) ==
  /\ Before(id).pc = "ingest"
  /\ tasks'[id].pc \in {"snapshot", "done"}
  /\ \A k \in CompletionsIn(outbox', id) : outbox'[k].type = "workflow-imported"

\* C19 as amended.  The canvas is marked dirty only in the step in which an
\* ingestion attempt succeeds, once, and only if app.graph is there at that
\* moment (otherwise not at all); the snapshot is taken after that step only;
\* the workflow-imported event, one at most, carries the snapshot re-read from
\* the embedded application (richer path, else structural, else null), not
\* the input document, and is posted only for an import whose last attempt
\* succeeded.
C19_DirtyIfGraphThenReread ==
  [][ \A id \in 1..Len(tasks') :
        IsImport(tasks'[id].msg)
          => /\ tasks'[id].dirty =
                  Before(id).dirty + (IF SucceedsNow(id) /\ env.graph THEN 1 ELSE 0)
             /\ tasks'[id].pc = "snapshot"
                  => (SucceedsNow(id) \/ Before(id).pc = "snapshot")
             /\ \A k \in 1..Len(outbox') :
                  (outbox'[k].id = id /\ outbox'[k].type = "workflow-imported")
                    => /\ k > Len(outbox)
                            => (SucceedsNow(id) \/ Before(id).pc = "snapshot")
                       /\ tasks'[id].pc = "done"
                       /\ tasks'[id].attempt = tasks'[id].races + 1
                       /\ tasks'[id].dirty <= 1
                       /\ Cardinality(CompletionsIn(outbox', id)) = 1
                       /\ outbox'[k].workflow =
                            (IF tasks'[id].snap.g2p \in PromptDocs
                             THEN tasks'[id].snap.g2p
                             ELSE Structural(tasks'[id].snap))
                       /\ outbox'[k].workflow # WorkflowOf(tasks'[id].msg.payload)
    ]_vars

\* An import that succeeded on its second attempt, marked the canvas dirty
\* and was answered with the document of the richer path.
C19_Witness ==
  \E id \in TaskIds :
    /\ tasks[id].races = 1
    /\ tasks[id].dirty = 1
    /\ outbox[Len(outbox)] = ImportedEvent(id, "promptDoc")

\* C20.  Within one importWorkflow invocation: an attempt starts only when
\* none is in flight; the first one after the readiness waits, attempt n+1
\* only when the delay that followed the race failure of attempt n has
\* elapsed; a failed attempt is followed by the delay or ends the import;
\* after a success no attempt starts.
C20_RetriesSequential ==
  [][ \A id \in 1..Len(tasks') :
        LET b == Before(id)
            a == tasks'[id]
        IN
        /\ a.attempt \in {b.attempt, b.attempt + 1}
        /\ a.attempt = b.attempt + 1
             => /\ b.pc # "ingest"
                /\ a.pc = "ingest"
                /\ IF b.attempt = 0 THEN b.pc \in SleepPcs \cup {"ignored", "queued"}
                   ELSE /\ b.pc = "delay"
                        /\ b.last \in RaceThrown
                        /\ b.races = b.attempt
        /\ a.pc = "delay"
             => /\ b.pc \in {"ingest", "delay"}
                /\ a.last \in RaceThrown
                /\ a.races = a.attempt
        /\ b.pc \in {"snapshot", "done"}
             => /\ a.attempt = b.attempt
                /\ a.pc \in {"snapshot", "done"} ]_vars

\* The third attempt of an import is in flight.
C20_Witness ==
  \E id \in TaskIds : tasks[id].pc = "ingest" /\ tasks[id].attempt = 3

\* The imports with an ingestion attempt in flight (awaiting app.handleFile).
InFlight == {id \in TaskIds : IsImport(tasks[id].msg) /\ tasks[id].pc = "ingest"}

\* C21.  No mutual exclusion across import-workflow commands after Ready: an
\* import-workflow that arrives in a Ready session with a workflow, while the
\* readiness flags and app.handleFile are set and an ingestion attempt of
\* another import is in flight, starts its own attempt in the same step, and
\* the other attempt stays in flight; so two attempts of different
\* invocations can be in flight together.
C21_NoMutualExclusion ==
  [][ (/\ ArrivingImport
       /\ bridgeReady
       /\ WorkflowOf(ArrivingMsg.payload) # Null
       /\ hasCanvasReady(env) /\ hasHostReady(env) /\ env.handleFile
       /\ InFlight # {})
        => /\ tasks'[ArrivingId].pc = "ingest"
           /\ tasks'[ArrivingId].attempt = 1
           /\ tasks'[ArrivingId].via = "direct"
           /\ OnlyArrival
           /\ queuedMessages' = queuedMessages
           /\ outbox' = outbox ]_vars

\* Ingestion attempts of two imports dispatched after Ready are in flight.
C21_Witness ==
  \E i, j \in InFlight :
    /\ i # j
    /\ tasks[i].via = "direct"
    /\ tasks[j].via = "direct"

IsImportCompletion(event) ==
  \/ event.type = "workflow-imported"
  \/ event.type = "error" /\ event.stage = "import-workflow"

\* C22.  No workflow-imported event and no error event of stage
\* import-workflow is posted before the ready event, and none at all when the
\* readiness wait fails; while the session is NotReady nothing but pong,
\* workflow-exported and the setup error has been posted.
C22_NoImportCompletionBeforeReady ==
  /\ \A k \in 1..Len(outbox) :
       IsImportCompletion(outbox[k])
         => \E j \in 1..(k - 1) : outbox[j].type = "ready"
  /\ setupPc = "failed"
       => \A k \in 1..Len(outbox) : ~IsImportCompletion(outbox[k])
  /\ ~bridgeReady
       => \A k \in 1..Len(outbox) :
            \/ outbox[k].type \in {"pong", "workflow-exported"}
            \/ outbox[k].type = "error" /\ outbox[k].stage = "setup"

\* The readiness wait has failed with an import-workflow in the queue, and
\* a ping was answered.
C22_Witness ==
  /\ setupPc = "failed"
  /\ queuedMessages # <<>>
  /\ CountType(outbox, "pong") = 1
  /\ SetupErrors # {}

\* C23.  The drain handles the queued commands one at a time: when a queued
\* command has been handed to importWorkflow, every command handed over before
\* it has its completion event, and these events are in arrival order; the
\* drain does not stop while commands are queued, whether the import it
\* awaited failed or not: as long as the queue of a Ready session is not
\* empty, the drain awaits the import it dispatched last.
C23_DrainOneAtATime ==
  /\ \A p, q \in 1..Len(dispatchOrder) :
       p < q
         => /\ tasks[dispatchOrder[p]].pc = "done"
            /\ Cardinality(CompletionsIn(outbox, dispatchOrder[p])) = 1
            /\ \A j \in CompletionsIn(outbox, dispatchOrder[p]),
                  k \in CompletionsIn(outbox, dispatchOrder[q]) : j < k
  /\ (bridgeReady /\ queuedMessages # <<>>)
       => /\ setupPc = "draining"
          /\ dispatchOrder # <<>>
          /\ drainCur = dispatchOrder[Len(dispatchOrder)]
          /\ tasks[drainCur].pc \in SleepPcs \cup {"ingest", "delay", "snapshot"}
  /\ \A id \in TaskIds :
       (tasks[id].via = "drain" /\ tasks[id].pc # "done") => drainCur = id

\* The first queued import failed and the one queued behind it was imported.
C23_Witness ==
  /\ Len(dispatchOrder) = 2
  /\ \E j, k \in 1..Len(outbox) :
       /\ j < k
       /\ outbox[j].id = dispatchOrder[1]
       /\ outbox[j].type = "error"
       /\ outbox[j].stage = "import-workflow"
       /\ outbox[k].id = dispatchOrder[2]
       /\ outbox[k].type = "workflow-imported"

====
